---- MODULE Spec2Model ----
(***************************************************************************)
(* A model of the reservation service: the gRPC handlers of                *)
(* src/src/service/reservations.rs on top of ReservationRepository         *)
(* (src/src/db/repository.rs) and its PostgreSQL store.                    *)
(*                                                                         *)
(* Time is counted in half hours (Hour == 2).  Every `.await` on the pool  *)
(* or on a transaction is one atomic step of the store; a handler is the   *)
(* sequence of its steps, and handlers of different requests interleave.   *)
(* The schema (the migrations directory) is not part of the sources at     *)
(* hand: the exclusion constraint no_overlapping_reservations and the      *)
(* column defaults are modelled from the specification.                    *)
(***************************************************************************)
EXTENDS Integers, FiniteSets, Sequences, TLC

VARIABLES
    clients,       \* table clients: the committed rows
    reservations,  \* table reservations: the committed (visible) rows
    pc,            \* per request handler: the await point it is suspended at
    call,          \* per request handler: the request it is serving
    tx,            \* per request handler: the row its open transaction inserted
    ev,            \* the response the last step sent, NoEvent if it sent none
    returned       \* per caller of a concurrent batch: the response it received

vars == <<clients, reservations, pc, call, tx, ev, returned>>

\* ------------------------------------------------------------------ bounds

\* callers of one concurrent batch of create_reservation calls
NumProcs == 2
\* the instants of the concurrent specifications: 0 .. MaxTime
MaxTime == 2
\* the instants of the sequential specification: 0 .. SeqMaxTime
SeqMaxTime == 4
\* reservation rows ever inserted
MaxRes == 2

\* chrono::Duration::hours(1), in half hours
Hour == 2

Procs == 1 .. NumProcs
Times == 0 .. MaxTime
SeqTimes == 0 .. SeqMaxTime
\* Uuid values of requests; no client ever gets the last one
ClientIds == {1, 2, 3}
\* Uuid values of requests; no reservation ever gets the last one
ResIds == 1 .. (MaxRes + 1)

\* ------------------------------------------------------------ value types

\* Option<T>
None == <<>>
Some(x) == <<x>>

NoRow ==
    [id |-> 0, client_id |-> 0, start_time |-> 0, end_time |-> 0,
     status |-> "none", notes |-> None]

NoCall ==
    [op |-> "none", client_id |-> 0, start_time |-> 0, end_time |-> 0,
     notes |-> "", id |-> 0, name |-> "", email |-> ""]

\* list: the Vec (or the bool) an operation returns
NoResult == [kind |-> "none", row |-> NoRow, id |-> 0, cause |-> None, list |-> <<>>]

\* enum RepositoryError, and the Ok values of the repository's operations
DatabaseError(constraint) == [NoResult EXCEPT !.kind = "DatabaseError", !.cause = constraint]
ReservationConflict == [NoResult EXCEPT !.kind = "ReservationConflict"]
ReservationNotFound(id) == [NoResult EXCEPT !.kind = "ReservationNotFound", !.id = id]
ClientNotFound(id) == [NoResult EXCEPT !.kind = "ClientNotFound", !.id = id]
OkReservation(row) == [NoResult EXCEPT !.kind = "Reservation", !.row = row, !.id = row.id]
OkClient(id) == [NoResult EXCEPT !.kind = "Client", !.id = id]
OkUnit == [NoResult EXCEPT !.kind = "Unit"]
OkBool(b) == [NoResult EXCEPT !.kind = "Bool", !.list = <<b>>]
OkSlots(slots) == [NoResult EXCEPT !.kind = "Slots", !.list = slots]
OkReservations(rows) == [NoResult EXCEPT !.kind = "Reservations", !.list = rows]
OkClients(rows) == [NoResult EXCEPT !.kind = "Clients", !.list = rows]
\* Status::invalid_argument of the service layer
InvalidArgument == [NoResult EXCEPT !.kind = "InvalidArgument"]

\* ------------------------------------------------------------- the store

\* tstzrange(s1, e1) && tstzrange(s2, e2): bounds '[)', an empty range
\* (s = e) overlaps nothing
RangeOverlap(s1, e1, s2, e2) ==
    /\ s1 < e1
    /\ s2 < e2
    /\ s1 < e2
    /\ s2 < e1

\* SELECT 1 FROM clients WHERE id = $1
ClientExists(id) == \E c \in clients : c.id = id

\* SELECT 1 FROM reservations WHERE id = $1
ReservationExists(id) == \E r \in reservations : r.id = id

\* the rows of every transaction that is still open
Pending == {tx[q] : q \in {x \in Procs : tx[x] # NoRow}}

\* gen_random_uuid(): an id no committed or in-flight row carries
FreshIds == {i \in 1 .. MaxRes : \A r \in reservations \cup Pending : r.id # i}
FreshId == CHOOSE i \in FreshIds : \A j \in FreshIds : i <= j

\* status ... DEFAULT 'confirmed'
DefaultStatus == "confirmed"

\* the row INSERT INTO reservations (client_id, start_time, end_time, notes)
\* writes: id and status are column defaults
NewRow(id, client_id, start_time, end_time, notes) ==
    [id |-> id, client_id |-> client_id, start_time |-> start_time,
     end_time |-> end_time, status |-> DefaultStatus, notes |-> notes]

\* as ExclusionViolated, for ranges with bounds '[]': two ranges that share
\* an endpoint overlap
ExclusionViolated_closed(rows, row) ==
    /\ row.status = "confirmed"
    /\ \E r \in rows :
        /\ r.id # row.id
        /\ r.status = "confirmed"
        /\ (r.start_time <= row.end_time /\ row.start_time <= r.end_time)

\* as ExclusionViolated, without WHERE status = 'confirmed'
ExclusionViolated_any_status(rows, row) ==
    \E r \in rows :
        /\ r.id # row.id
        /\ (r.start_time < row.end_time /\ row.start_time < r.end_time)

\* CONSTRAINT no_overlapping_reservations: EXCLUDE (tstzrange(start_time,
\* end_time) WITH &&) WHERE status = 'confirmed', against the committed rows
ExclusionViolated(rows, row) ==
    /\ row.status = "confirmed"
    /\ \E r \in rows :
        /\ r.id # row.id
        /\ r.status = "confirmed"
        /\ RangeOverlap(r.start_time, r.end_time, row.start_time, row.end_time)

\* as MustWait, for a constraint that looks at committed rows only
MustWait_never(p, row) == FALSE

\* an insert that conflicts with a row of a transaction still in flight waits
\* for that transaction to end
MustWait(p, row) ==
    \E q \in Procs \ {p} :
        /\ tx[q] # NoRow
        /\ ExclusionViolated({tx[q]}, row)

\* as CancelUpdate, for DELETE FROM reservations in place of the UPDATE
CancelUpdate_delete(rows, id) == {r \in rows : r.id # id}

\* UPDATE reservations SET status = 'cancelled'
\*  WHERE id = $1 AND status = 'confirmed'
CancelMatches(rows, id) == {r \in rows : r.id = id /\ r.status = "confirmed"}

\* as CancelUpdate, for an UPDATE that also sets end_time = start_time
CancelUpdate_release(rows, id) ==
    (rows \ CancelMatches(rows, id))
        \cup {[r EXCEPT !.status = "cancelled", !.end_time = r.start_time] :
                 r \in CancelMatches(rows, id)}

CancelUpdate(rows, id) ==
    (rows \ CancelMatches(rows, id))
        \cup {[r EXCEPT !.status = "cancelled"] : r \in CancelMatches(rows, id)}

\* impl From<String> for ReservationStatus (the column holds lower case)
ReservationStatus_from(s) == IF s = "cancelled" THEN "Cancelled" ELSE "Confirmed"

\* impl FromRow for Reservation
Reservation_from_row(r) == [r EXCEPT !.status = ReservationStatus_from(r.status)]

\* struct TimeSlot
TimeSlot(start_time, end_time) == [start_time |-> start_time, end_time |-> end_time]

\* as overlapping_count, without WHERE status = 'confirmed'
overlapping_count_any_status(rows, start_time, end_time) ==
    Cardinality({r \in rows :
        RangeOverlap(start_time, end_time, r.start_time, r.end_time)})

\* SELECT COUNT(*) FROM reservations WHERE status = 'confirmed'
\*  AND tstzrange($1, $2) && tstzrange(start_time, end_time)
overlapping_count(rows, start_time, end_time) ==
    Cardinality({r \in rows :
        /\ r.status = "confirmed"
        /\ RangeOverlap(start_time, end_time, r.start_time, r.end_time)})

\* SELECT * FROM reservations WHERE status = 'confirmed'
\*  AND tstzrange(start_time, end_time) && tstzrange($1, $2);
\* the order of the rows does not matter to iter().any()
existing_reservations(rows, start_date, end_date) ==
    {r \in rows :
        /\ r.status = "confirmed"
        /\ RangeOverlap(r.start_time, r.end_time, start_date, end_date)}

\* as slot_overlaps, with a first clause that takes in the end of the
\* reservation
slot_overlaps_closed(current_time, slot_end, res) ==
    \/ (current_time >= res.start_time /\ current_time <= res.end_time)
    \/ (slot_end > res.start_time /\ slot_end <= res.end_time)
    \/ (current_time <= res.start_time /\ slot_end >= res.end_time)

\* the closure given to any(): the three clauses
slot_overlaps(current_time, slot_end, res) ==
    \/ (current_time >= res.start_time /\ current_time < res.end_time)
    \/ (slot_end > res.start_time /\ slot_end <= res.end_time)
    \/ (current_time <= res.start_time /\ slot_end >= res.end_time)

\* let is_available = !existing_reservations.iter().any(..)
is_available(existing, current_time, slot_end) ==
    ~\E res \in existing : slot_overlaps(current_time, slot_end, res)

\* as candidates, for a loop that stops when the slot would end past end_date
RECURSIVE candidates_within(_, _)
candidates_within(current_time, end_date) ==
    IF current_time + Hour <= end_date
    THEN <<TimeSlot(current_time, current_time + Hour)>>
             \o candidates_within(current_time + Hour, end_date)
    ELSE <<>>

\* the slots the loop examines: while current_time < end_date, with
\* slot_end = current_time + 1h and current_time = slot_end at the end
RECURSIVE candidates(_, _)
candidates(current_time, end_date) ==
    IF current_time < end_date
    THEN <<TimeSlot(current_time, current_time + Hour)>>
             \o candidates(current_time + Hour, end_date)
    ELSE <<>>

\* the loop's result: the examined slots that are available, in order
available_slots(existing, start_date, end_date) ==
    LET free(slot) == is_available(existing, slot.start_time, slot.end_time)
    IN  SelectSeq(candidates(start_date, end_date), free)

\* ---------------------------------------------------------- the handlers

\* the variants of enum RepositoryError
RepositoryErrors ==
    {"DatabaseError", "ReservationConflict", "ReservationNotFound", "ClientNotFound"}

\* as map_error, with one arm for the two errors of create_reservation
map_error_merged(err) ==
    CASE err.kind = "DatabaseError" -> "Internal"
      [] err.kind = "ReservationConflict" -> "NotFound"
      [] err.kind = "ReservationNotFound" -> "NotFound"
      [] err.kind = "ClientNotFound" -> "NotFound"

\* ReservationServiceImpl::map_error: the tonic::Status code of an error
map_error(err) ==
    CASE err.kind = "DatabaseError" -> "Internal"
      [] err.kind = "ReservationConflict" -> "AlreadyExists"
      [] err.kind = "ReservationNotFound" -> "NotFound"
      [] err.kind = "ClientNotFound" -> "NotFound"

\* the code of the response: .map_err(Self::map_error)? on the repository's
\* result, Status::invalid_argument of the handler itself, Ok otherwise
StatusCode(res) ==
    IF res.kind \in RepositoryErrors THEN map_error(res)
    ELSE IF res.kind = "InvalidArgument" THEN "InvalidArgument"
    ELSE "Ok"

\* the response a step sends: the operation, the await point it returned
\* from, the result and the code of the status
NoEvent == [at |-> "none", op |-> "none", result |-> NoResult, status |-> "none"]

\* the handler of p answers request c with res and ends
Returns(p, c, res) ==
    /\ pc' = [pc EXCEPT ![p] = "idle"]
    /\ call' = [call EXCEPT ![p] = NoCall]
    /\ ev' = [at |-> pc[p], op |-> c.op, result |-> res, status |-> StatusCode(res)]

\* the handler of p, serving request c, is suspended at an await point
Suspends(p, c, at) ==
    /\ pc' = [pc EXCEPT ![p] = at]
    /\ call' = [call EXCEPT ![p] = c]
    /\ ev' = NoEvent

\* req.notes.is_empty() -> None
NotesArg(notes) == IF notes = "" THEN None ELSE Some(notes)

\* as classify_insert_error, without the match: the error is passed on
classify_insert_error_raw(constraint) == DatabaseError(constraint)

\* as classify_insert_error, without the test of the constraint's name
classify_insert_error_any(constraint) == ReservationConflict

\* the match on the error of the insert
classify_insert_error(constraint) ==
    IF constraint = Some("no_overlapping_reservations")
    THEN ReservationConflict
    ELSE DatabaseError(constraint)

\* ReservationServiceImpl::create_client, ReservationRepository::create_client;
\* id is the value the id column's default generates
create_client(p, name, email, id) ==
    LET c == [NoCall EXCEPT !.op = "create_client", !.name = name, !.email = email]
    IN  /\ pc[p] = "idle"
        /\ \/ /\ name = "" \/ email = ""
              /\ Returns(p, c, InvalidArgument)
              /\ UNCHANGED clients
           \/ /\ name # "" /\ email # ""
              /\ Returns(p, c, DatabaseError(None))
              /\ UNCHANGED clients
           \/ /\ name # "" /\ email # ""
              /\ ~ClientExists(id)
              /\ clients' = clients \cup {[id |-> id, name |-> name, email |-> email]}
              /\ Returns(p, c, OkClient(id))
        /\ UNCHANGED <<reservations, tx>>

\* as create_reservation, with the client checked before start and end
create_reservation_client_first(p, client_id, start_time, end_time, notes) ==
    LET c == [NoCall EXCEPT !.op = "create_reservation", !.client_id = client_id,
                            !.start_time = start_time, !.end_time = end_time,
                            !.notes = notes]
    IN  /\ pc[p] = "idle"
        /\ \/ Returns(p, c, DatabaseError(None))
           \/ /\ ~ClientExists(client_id)
              /\ Returns(p, c, ClientNotFound(client_id))
           \/ /\ ClientExists(client_id)
              /\ start_time >= end_time
              /\ Returns(p, c, InvalidArgument)
           \/ /\ ClientExists(client_id)
              /\ start_time < end_time
              /\ Suspends(p, c, "insert")
        /\ UNCHANGED <<clients, reservations, tx>>

\* as create_reservation, without the test start_time >= end_time
create_reservation_unvalidated(p, client_id, start_time, end_time, notes) ==
    LET c == [NoCall EXCEPT !.op = "create_reservation", !.client_id = client_id,
                            !.start_time = start_time, !.end_time = end_time,
                            !.notes = notes]
    IN  /\ pc[p] = "idle"
        /\ \/ Returns(p, c, DatabaseError(None))
           \/ /\ ~ClientExists(client_id)
              /\ Returns(p, c, ClientNotFound(client_id))
           \/ /\ ClientExists(client_id)
              /\ Suspends(p, c, "insert")
        /\ UNCHANGED <<clients, reservations, tx>>

\* as create_reservation, without the return of ClientNotFound
create_reservation_unchecked(p, client_id, start_time, end_time, notes) ==
    LET c == [NoCall EXCEPT !.op = "create_reservation", !.client_id = client_id,
                            !.start_time = start_time, !.end_time = end_time,
                            !.notes = notes]
    IN  /\ pc[p] = "idle"
        /\ \/ /\ start_time >= end_time
              /\ Returns(p, c, InvalidArgument)
           \/ /\ start_time < end_time
              /\ Returns(p, c, DatabaseError(None))
           \/ /\ start_time < end_time
              /\ Suspends(p, c, "insert")
        /\ UNCHANGED <<clients, reservations, tx>>

\* ReservationServiceImpl::create_reservation up to the repository call, then
\* ReservationRepository::create_reservation: begin and the client check
create_reservation(p, client_id, start_time, end_time, notes) ==
    LET c == [NoCall EXCEPT !.op = "create_reservation", !.client_id = client_id,
                            !.start_time = start_time, !.end_time = end_time,
                            !.notes = notes]
    IN  /\ pc[p] = "idle"
        /\ \/ /\ start_time >= end_time
              /\ Returns(p, c, InvalidArgument)
           \/ /\ start_time < end_time
              /\ Returns(p, c, DatabaseError(None))
           \/ /\ start_time < end_time
              /\ ~ClientExists(client_id)
              /\ Returns(p, c, ClientNotFound(client_id))
           \/ /\ start_time < end_time
              /\ ClientExists(client_id)
              /\ Suspends(p, c, "insert")
        /\ UNCHANGED <<clients, reservations, tx>>

\* ReservationRepository::create_reservation_tx and the Err arm of the match
create_reservation_tx(p) ==
    LET c == call[p]
        row == NewRow(IF FreshIds = {} THEN 0 ELSE FreshId, c.client_id,
                      c.start_time, c.end_time, NotesArg(c.notes))
    IN  /\ pc[p] = "insert"
        /\ \/ /\ Returns(p, c, classify_insert_error(None))
              /\ UNCHANGED tx
           \/ /\ ExclusionViolated(reservations, row)
              /\ Returns(p, c, classify_insert_error(Some("no_overlapping_reservations")))
              /\ UNCHANGED tx
           \/ /\ ~ExclusionViolated(reservations, row)
              /\ ~MustWait(p, row)
              /\ FreshIds # {}
              /\ tx' = [tx EXCEPT ![p] = row]
              /\ Suspends(p, c, "commit")
        /\ UNCHANGED <<clients, reservations>>

\* as create_reservation_commit, for an insert run on the pool and not on
\* the transaction: the row stays when the commit fails
create_reservation_commit_leak(p) ==
    /\ pc[p] = "commit"
    /\ tx' = [tx EXCEPT ![p] = NoRow]
    /\ reservations' = reservations \cup {tx[p]}
    /\ \/ Returns(p, call[p], OkReservation(Reservation_from_row(tx[p])))
       \/ Returns(p, call[p], DatabaseError(None))
    /\ UNCHANGED clients

\* the Ok arm of the match: tx.commit()
create_reservation_commit(p) ==
    /\ pc[p] = "commit"
    /\ tx' = [tx EXCEPT ![p] = NoRow]
    /\ \/ /\ reservations' = reservations \cup {tx[p]}
          /\ Returns(p, call[p], OkReservation(Reservation_from_row(tx[p])))
       \/ /\ Returns(p, call[p], DatabaseError(None))
          /\ UNCHANGED reservations
    /\ UNCHANGED clients

\* create_reservation, await by await, with its transaction: tx[p] is NoRow
\* when handler p has no transaction, OpenTx when its transaction is open
\* and has written nothing, and the inserted row after the INSERT.
\* A Transaction that is dropped rolls back.
OpenTx == [NoRow EXCEPT !.status = "open"]

\* self.pool.begin().await?
create_reservation_begin(p, client_id, start_time, end_time, notes) ==
    LET c == [NoCall EXCEPT !.op = "create_reservation", !.client_id = client_id,
                            !.start_time = start_time, !.end_time = end_time,
                            !.notes = notes]
    IN  /\ pc[p] = "idle"
        /\ \/ /\ start_time >= end_time
              /\ Returns(p, c, InvalidArgument)
              /\ UNCHANGED tx
           \/ /\ start_time < end_time
              /\ Returns(p, c, DatabaseError(None))
              /\ UNCHANGED tx
           \/ /\ start_time < end_time
              /\ tx' = [tx EXCEPT ![p] = OpenTx]
              /\ Suspends(p, c, "client")
        /\ UNCHANGED <<clients, reservations>>

\* as create_reservation_client_exists, with a transaction that stays open
\* when the function returns early
create_reservation_client_exists_held(p) ==
    /\ pc[p] = "client"
    /\ \/ /\ Returns(p, call[p], DatabaseError(None))
          /\ UNCHANGED tx
       \/ /\ ~ClientExists(call[p].client_id)
          /\ Returns(p, call[p], ClientNotFound(call[p].client_id))
          /\ UNCHANGED tx
       \/ /\ ClientExists(call[p].client_id)
          /\ Suspends(p, call[p], "insert")
          /\ UNCHANGED tx
    /\ UNCHANGED <<clients, reservations>>

\* SELECT 1 FROM clients WHERE id = $1 on the transaction; the ? and the
\* early return drop the transaction
create_reservation_client_exists(p) ==
    /\ pc[p] = "client"
    /\ \/ /\ Returns(p, call[p], DatabaseError(None))
          /\ tx' = [tx EXCEPT ![p] = NoRow]
       \/ /\ ~ClientExists(call[p].client_id)
          /\ Returns(p, call[p], ClientNotFound(call[p].client_id))
          /\ tx' = [tx EXCEPT ![p] = NoRow]
       \/ /\ ClientExists(call[p].client_id)
          /\ Suspends(p, call[p], "insert")
          /\ UNCHANGED tx
    /\ UNCHANGED <<clients, reservations>>

\* create_reservation_tx on the open transaction, and the Err arm of the
\* match with its tx.rollback()
create_reservation_insert(p) ==
    LET c == call[p]
        row == NewRow(IF FreshIds = {} THEN 0 ELSE FreshId, c.client_id,
                      c.start_time, c.end_time, NotesArg(c.notes))
    IN  /\ pc[p] = "insert"
        /\ \/ /\ Returns(p, c, classify_insert_error(None))
              /\ tx' = [tx EXCEPT ![p] = NoRow]
           \/ /\ ExclusionViolated(reservations, row)
              /\ Returns(p, c, classify_insert_error(Some("no_overlapping_reservations")))
              /\ tx' = [tx EXCEPT ![p] = NoRow]
           \/ /\ ~ExclusionViolated(reservations, row)
              /\ ~MustWait(p, row)
              /\ FreshIds # {}
              /\ tx' = [tx EXCEPT ![p] = row]
              /\ Suspends(p, c, "commit")
        /\ UNCHANGED <<clients, reservations>>

\* as cancel_reservation, without the test of rows_affected
cancel_reservation_blind(p, id) ==
    LET c == [NoCall EXCEPT !.op = "cancel_reservation", !.id = id]
    IN  /\ pc[p] = "idle"
        /\ \/ /\ Returns(p, c, DatabaseError(None))
              /\ UNCHANGED reservations
           \/ /\ reservations' = CancelUpdate(reservations, id)
              /\ Returns(p, c, OkUnit)
        /\ UNCHANGED <<clients, tx>>

\* ReservationRepository::cancel_reservation: the UPDATE
cancel_reservation(p, id) ==
    LET c == [NoCall EXCEPT !.op = "cancel_reservation", !.id = id]
    IN  /\ pc[p] = "idle"
        /\ \/ /\ Returns(p, c, DatabaseError(None))
              /\ UNCHANGED reservations
           \/ /\ CancelMatches(reservations, id) # {}
              /\ reservations' = CancelUpdate(reservations, id)
              /\ Returns(p, c, OkUnit)
           \/ /\ CancelMatches(reservations, id) = {}
              /\ Suspends(p, c, "exists")
              /\ UNCHANGED reservations
        /\ UNCHANGED <<clients, tx>>

\* as cancel_reservation_exists, without the query: no row updated is an error
cancel_reservation_exists_strict(p) ==
    /\ pc[p] = "exists"
    /\ \/ Returns(p, call[p], DatabaseError(None))
       \/ Returns(p, call[p], ReservationNotFound(call[p].id))
    /\ UNCHANGED <<clients, reservations, tx>>

\* ReservationRepository::cancel_reservation: rows_affected == 0
cancel_reservation_exists(p) ==
    /\ pc[p] = "exists"
    /\ \/ Returns(p, call[p], DatabaseError(None))
       \/ /\ ~ReservationExists(call[p].id)
          /\ Returns(p, call[p], ReservationNotFound(call[p].id))
       \/ /\ ReservationExists(call[p].id)
          /\ Returns(p, call[p], OkUnit)
    /\ UNCHANGED <<clients, reservations, tx>>

\* as get_reservation, with AND status = 'confirmed' in the query
get_reservation_confirmed(p, id) ==
    LET c == [NoCall EXCEPT !.op = "get_reservation", !.id = id]
    IN  /\ pc[p] = "idle"
        /\ \/ Returns(p, c, DatabaseError(None))
           \/ /\ CancelMatches(reservations, id) = {}
              /\ Returns(p, c, ReservationNotFound(id))
           \/ \E r \in CancelMatches(reservations, id) :
                 Returns(p, c, OkReservation(Reservation_from_row(r)))
        /\ UNCHANGED <<clients, reservations, tx>>

\* ReservationRepository::get_reservation
get_reservation(p, id) ==
    LET c == [NoCall EXCEPT !.op = "get_reservation", !.id = id]
    IN  /\ pc[p] = "idle"
        /\ \/ Returns(p, c, DatabaseError(None))
           \/ /\ ~ReservationExists(id)
              /\ Returns(p, c, ReservationNotFound(id))
           \/ \E r \in reservations :
                 /\ r.id = id
                 /\ Returns(p, c, OkReservation(Reservation_from_row(r)))
        /\ UNCHANGED <<clients, reservations, tx>>

\* as is_slot_available, with an INSERT that holds the interval it found free
is_slot_available_hold(p, start_time, end_time) ==
    LET c == [NoCall EXCEPT !.op = "is_slot_available",
                            !.start_time = start_time, !.end_time = end_time]
        free == overlapping_count(reservations, start_time, end_time) = 0
    IN  /\ pc[p] = "idle"
        /\ \/ /\ Returns(p, c, DatabaseError(None))
              /\ UNCHANGED reservations
           \/ /\ start_time <= end_time
              /\ Returns(p, c, OkBool(free))
              /\ reservations' =
                    IF free /\ FreshIds # {} /\ start_time < end_time
                    THEN reservations \cup {NewRow(FreshId, 1, start_time, end_time, None)}
                    ELSE reservations
        /\ UNCHANGED <<clients, tx>>

\* ReservationRepository::is_slot_available; tstzrange($1, $2) raises an
\* error when $1 > $2
is_slot_available(p, start_time, end_time) ==
    LET c == [NoCall EXCEPT !.op = "is_slot_available",
                            !.start_time = start_time, !.end_time = end_time]
    IN  /\ pc[p] = "idle"
        /\ \/ Returns(p, c, DatabaseError(None))
           \/ /\ start_time <= end_time
              /\ Returns(p, c, OkBool(overlapping_count(reservations, start_time, end_time) = 0))
        /\ UNCHANGED <<clients, reservations, tx>>

\* ReservationRepository::find_available_slots
find_available_slots(p, start_date, end_date) ==
    LET c == [NoCall EXCEPT !.op = "find_available_slots",
                            !.start_time = start_date, !.end_time = end_date]
    IN  /\ pc[p] = "idle"
        /\ \/ Returns(p, c, DatabaseError(None))
           \/ /\ start_date <= end_date
              /\ Returns(p, c, OkSlots(available_slots(
                     existing_reservations(reservations, start_date, end_date),
                     start_date, end_date)))
        /\ UNCHANGED <<clients, reservations, tx>>

\* the orders in which a query without ORDER BY may return the rows
AnyOrder(rows) ==
    {seq \in [1 .. Cardinality(rows) -> rows] :
        \A r \in rows : \E i \in DOMAIN seq : seq[i] = r}

\* ReservationRepository::list_clients: SELECT * FROM clients
list_clients(p) ==
    LET c == [NoCall EXCEPT !.op = "list_clients"]
    IN  /\ pc[p] = "idle"
        /\ \/ Returns(p, c, DatabaseError(None))
           \/ \E seq \in AnyOrder(clients) : Returns(p, c, OkClients(seq))
        /\ UNCHANGED <<clients, reservations, tx>>

\* ------------------------------------------------------- specifications

\* what a caller of a batch keeps: its request and the result it got
NoReturn == [call |-> NoCall, result |-> NoResult]

Init ==
    /\ clients = {}
    /\ reservations = {}
    /\ pc = [p \in Procs |-> "idle"]
    /\ call = [p \in Procs |-> NoCall]
    /\ tx = [p \in Procs |-> NoRow]
    /\ ev = NoEvent
    /\ returned = [p \in Procs |-> NoReturn]

\* names and emails of CreateClient requests
ClientInputs == {<<"a", "a">>, <<"", "a">>, <<"a", "">>}

\* start and end of CreateReservation requests: every interval of the
\* instants T, and one with start_time >= end_time
Slots(T) == {<<s, e>> \in T \X T : s < e \/ (s = 0 /\ e = 0)}

\* two request handlers that run concurrently.  A request served in one
\* step (create_client, get_reservation) leaves no handler suspended, so
\* which handler serves it makes no difference: handler 1 serves them
Handlers == {1, 2}

Next ==
    \/ \E n \in ClientInputs :
          create_client(1, n[1], n[2], 1) /\ UNCHANGED returned
    \/ \E p \in Handlers, s \in Slots(Times) :
          create_reservation(p, 1, s[1], s[2], "") /\ UNCHANGED returned
    \/ \E p \in Handlers : create_reservation_tx(p) /\ UNCHANGED returned
    \/ \E p \in Handlers : create_reservation_commit(p) /\ UNCHANGED returned
    \/ \E p \in Handlers, id \in ResIds :
          cancel_reservation(p, id) /\ UNCHANGED returned
    \/ \E p \in Handlers : cancel_reservation_exists(p) /\ UNCHANGED returned
    \/ \E id \in ResIds : get_reservation(1, id) /\ UNCHANGED returned

Spec == Init /\ [][Next]_vars

\* one client that sends a request after the answer to the one before; it
\* books hour-long slots at every half hour
SeqSlots == {<<s, e>> \in Slots(SeqTimes) : e = s \/ e = s + Hour}

NextSeq ==
    \/ \E n \in ClientInputs, id \in {1, 2} :
          create_client(1, n[1], n[2], id) /\ UNCHANGED returned
    \/ \E c \in ClientIds, s \in SeqSlots :
          create_reservation(1, c, s[1], s[2], "") /\ UNCHANGED returned
    \/ create_reservation_tx(1) /\ UNCHANGED returned
    \/ create_reservation_commit(1) /\ UNCHANGED returned
    \/ \E id \in ResIds : cancel_reservation(1, id) /\ UNCHANGED returned
    \/ cancel_reservation_exists(1) /\ UNCHANGED returned
    \/ \E id \in ResIds : get_reservation(1, id) /\ UNCHANGED returned

SpecSeq == Init /\ [][NextSeq]_vars

\* a batch of concurrent create_reservation calls, one per caller, of a
\* registered client; the store holds no row or one row when the batch starts
InitStores ==
    {{}} \cup
    {{[NewRow(MaxRes + 1, 1, s[1], s[2], None) EXCEPT !.status = st]} :
        s \in {x \in Slots(Times) : x[1] < x[2]}, st \in {"confirmed", "cancelled"}}

InitCreate ==
    /\ clients = {[id |-> 1, name |-> "a", email |-> "a"]}
    /\ reservations \in InitStores
    /\ pc = [p \in Procs |-> "idle"]
    /\ call = [p \in Procs |-> NoCall]
    /\ tx = [p \in Procs |-> NoRow]
    /\ ev = NoEvent
    /\ returned = [p \in Procs |-> NoReturn]

\* the caller p receives the response of this step, if the step sends one
Join(p) ==
    returned' =
        IF ev' = NoEvent
        THEN returned
        ELSE [returned EXCEPT ![p] = [call |-> call[p], result |-> ev'.result]]

\* the first step's response is to the request the step itself reads
JoinFirst(p, client_id, start_time, end_time) ==
    returned' =
        IF ev' = NoEvent
        THEN returned
        ELSE [returned EXCEPT ![p] =
                 [call |-> [NoCall EXCEPT !.op = "create_reservation",
                                          !.client_id = client_id,
                                          !.start_time = start_time,
                                          !.end_time = end_time],
                  result |-> ev'.result]]

\* every caller makes one call
NextCreate ==
    \/ \E p \in Procs, s \in Slots(Times) :
          /\ returned[p] = NoReturn
          /\ create_reservation(p, 1, s[1], s[2], "")
          /\ JoinFirst(p, 1, s[1], s[2])
    \/ \E p \in Procs : create_reservation_tx(p) /\ Join(p)
    \/ \E p \in Procs : create_reservation_commit(p) /\ Join(p)

SpecCreate == InitCreate /\ [][NextCreate]_vars

\* every caller makes one create_reservation call, for a registered client
\* or an unknown one, and the runtime goes on polling every task that can
\* make progress
TxRequests ==
    {<<1, s>> : s \in {x \in Slots(Times) : x[2] <= Hour}} \cup {<<3, <<0, 1>>>>}

TxStep(p) ==
    \/ \E req \in TxRequests :
          /\ returned[p] = NoReturn
          /\ create_reservation_begin(p, req[1], req[2][1], req[2][2], "")
          /\ JoinFirst(p, req[1], req[2][1], req[2][2])
    \/ create_reservation_client_exists(p) /\ Join(p)
    \/ create_reservation_insert(p) /\ Join(p)
    \/ create_reservation_commit(p) /\ Join(p)

NextTx == \E p \in Procs : TxStep(p)

\* the store holds no row, or one row of the first hour
InitTx ==
    /\ InitCreate
    /\ \A r \in reservations : r.start_time = 0 /\ r.end_time = Hour

SpecTx == InitTx /\ [][NextTx]_vars /\ \A p \in Procs : WF_vars(TxStep(p))

\* a batch of concurrent calls, one per caller, on a store that holds one
\* reservation: a cancel of that reservation, or a create
InitCancel ==
    /\ InitCreate
    /\ reservations # {}

\* the id of the reservation the store holds at the start
Held == MaxRes + 1

\* the caller of a cancel receives the response of its first step
JoinCancel(p, id) ==
    returned' =
        IF ev' = NoEvent
        THEN returned
        ELSE [returned EXCEPT ![p] =
                 [call |-> [NoCall EXCEPT !.op = "cancel_reservation", !.id = id],
                  result |-> ev'.result]]

NextCancel ==
    \/ \E p \in Procs :
          /\ returned[p] = NoReturn
          /\ cancel_reservation(p, Held)
          /\ JoinCancel(p, Held)
    \/ \E p \in Procs : cancel_reservation_exists(p) /\ Join(p)
    \/ \E p \in Procs, s \in Slots(Times) :
          /\ returned[p] = NoReturn
          /\ create_reservation(p, 1, s[1], s[2], "")
          /\ JoinFirst(p, 1, s[1], s[2])
    \/ \E p \in Procs : create_reservation_tx(p) /\ Join(p)
    \/ \E p \in Procs : create_reservation_commit(p) /\ Join(p)

SpecCancel == InitCancel /\ [][NextCancel]_vars

\* ---------------------------------------------- the service's handlers

\* the text of a Uuid on the wire; any other text is not a Uuid
UuidText == <<"1", "2", "3", "4", "5", "6", "7", "8", "9">>

\* str::parse::<Uuid>(): Some(id), or None for Err
Uuid_parse(text) ==
    IF \E i \in DOMAIN UuidText : UuidText[i] = text
    THEN Some(CHOOSE i \in DOMAIN UuidText : UuidText[i] = text)
    ELSE None

\* prost_types::Timestamp; seconds are counted in the model's unit of time
Timestamp(seconds, nanos) == [seconds |-> seconds, nanos |-> nanos]

\* ReservationServiceImpl::timestamp_to_datetime: ts.nanos as u32 and
\* DateTime::from_timestamp, which is None for nanos of 2_000_000_000 or
\* more (as u32 takes a negative nanos to 2^32 + nanos, which is more);
\* then unwrap_or(Utc::now())
timestamp_to_datetime(ts, now) ==
    IF ts.nanos >= 0 /\ ts.nanos < 2000000000 THEN ts.seconds ELSE now

\* return Err(Status::invalid_argument(..)) before any call of the repository
RejectsRequest(p, op) ==
    /\ pc[p] = "idle"
    /\ Returns(p, [NoCall EXCEPT !.op = op], InvalidArgument)
    /\ UNCHANGED <<clients, reservations, tx>>

\* ReservationServiceImpl::create_reservation; now: what Utc::now() gives at
\* the conversion of start_time and of end_time
CreateReservation(p, req, now) ==
    LET client_id == Uuid_parse(req.client_id)
    IN  IF \/ client_id = None
           \/ req.slot = None
           \/ req.slot[1].start_time = None
           \/ req.slot[1].end_time = None
        THEN RejectsRequest(p, "create_reservation")
        ELSE create_reservation(p, client_id[1],
                 timestamp_to_datetime(req.slot[1].start_time[1], now[1]),
                 timestamp_to_datetime(req.slot[1].end_time[1], now[2]),
                 req.notes)

\* ReservationServiceImpl::get_reservation
GetReservation(p, text) ==
    IF Uuid_parse(text) = None
    THEN RejectsRequest(p, "get_reservation")
    ELSE get_reservation(p, Uuid_parse(text)[1])

\* ReservationServiceImpl::cancel_reservation
CancelReservation(p, text) ==
    IF Uuid_parse(text) = None
    THEN RejectsRequest(p, "cancel_reservation")
    ELSE cancel_reservation(p, Uuid_parse(text)[1])

\* ReservationServiceImpl::list_available_slots
ListAvailableSlots(p, range, now) ==
    IF range.start_time = None \/ range.end_time = None
    THEN RejectsRequest(p, "find_available_slots")
    ELSE LET start_time == timestamp_to_datetime(range.start_time[1], now[1])
             end_time == timestamp_to_datetime(range.end_time[1], now[2])
         IN  IF start_time >= end_time
             THEN RejectsRequest(p, "find_available_slots")
             ELSE find_available_slots(p, start_time, end_time)

\* ORDER BY start_time: the rows in a sequence of ascending start_time; rows
\* of equal start_time come in any order
OrderedByStart(rows) ==
    {seq \in [1 .. Cardinality(rows) -> rows] :
        /\ \A i \in DOMAIN seq, j \in DOMAIN seq : i # j => seq[i] # seq[j]
        /\ \A i \in DOMAIN seq, j \in DOMAIN seq :
              i < j => seq[i].start_time <= seq[j].start_time}

\* ReservationRepository::get_client_reservations: the client check
get_client_reservations(p, client_id) ==
    LET c == [NoCall EXCEPT !.op = "get_client_reservations", !.client_id = client_id]
    IN  /\ pc[p] = "idle"
        /\ \/ Returns(p, c, DatabaseError(None))
           \/ /\ ~ClientExists(client_id)
              /\ Returns(p, c, ClientNotFound(client_id))
           \/ /\ ClientExists(client_id)
              /\ Suspends(p, c, "select")
        /\ UNCHANGED <<clients, reservations, tx>>

\* as get_client_reservations_select, with AND status = 'confirmed'
get_client_reservations_select_confirmed(p) ==
    /\ pc[p] = "select"
    /\ \/ Returns(p, call[p], DatabaseError(None))
       \/ \E seq \in OrderedByStart({r \in reservations :
                        r.client_id = call[p].client_id /\ r.status = "confirmed"}) :
             Returns(p, call[p],
                     OkReservations([i \in DOMAIN seq |-> Reservation_from_row(seq[i])]))
    /\ UNCHANGED <<clients, reservations, tx>>

\* ReservationRepository::get_client_reservations: SELECT * FROM reservations
\* WHERE client_id = $1 ORDER BY start_time
get_client_reservations_select(p) ==
    /\ pc[p] = "select"
    /\ \/ Returns(p, call[p], DatabaseError(None))
       \/ \E seq \in OrderedByStart({r \in reservations : r.client_id = call[p].client_id}) :
             Returns(p, call[p],
                     OkReservations([i \in DOMAIN seq |-> Reservation_from_row(seq[i])]))
    /\ UNCHANGED <<clients, reservations, tx>>

\* ReservationServiceImpl::list_client_reservations
ListClientReservations(p, text) ==
    IF Uuid_parse(text) = None
    THEN RejectsRequest(p, "get_client_reservations")
    ELSE get_client_reservations(p, Uuid_parse(text)[1])

\* the requests of one client of the service, one after the other:
\* well-formed ones, and ones with a field missing or not parseable
Ts(t) == Some(Timestamp(t, 0))
BadTs == Some(Timestamp(0, 0 - 1))

SlotInputs ==
    {Some([start_time |-> Ts(s[1]), end_time |-> Ts(s[2])]) :
        s \in {x \in SeqSlots : x[1] < x[2]} \cup {<<1, 1>>, <<Hour, 1>>}}

BadSlotInputs ==
    { None,
      Some([start_time |-> None, end_time |-> Ts(Hour)]),
      Some([start_time |-> Ts(0), end_time |-> None]),
      Some([start_time |-> BadTs, end_time |-> BadTs]),
      Some([start_time |-> BadTs, end_time |-> Ts(Hour)]) }

\* the id of the client that registers, the id of no client, and no Uuid
ClientIdInputs == {"1", "3", "zz"}

ReservationRequests ==
    {[client_id |-> c, slot |-> s, notes |-> ""] :
        c \in ClientIdInputs, s \in SlotInputs}
    \cup {[client_id |-> "1", slot |-> s, notes |-> ""] : s \in BadSlotInputs}

RangeInputs ==
    {[start_time |-> Ts(w[1]), end_time |-> Ts(w[2])] :
        w \in {x \in Slots(SeqTimes) : x[1] <= 1}}
    \cup {[start_time |-> None, end_time |-> Ts(Hour)],
          [start_time |-> Ts(Hour), end_time |-> Ts(1)],
          [start_time |-> Ts(0), end_time |-> None],
          [start_time |-> BadTs, end_time |-> Ts(Hour)]}

ReservationIdInputs == {UuidText[i] : i \in ResIds} \cup {"zz"}

\* Utc::now() at the two conversions of a request: the same instant in the
\* model's unit of time, or a later one at the second conversion
Clock == {<<0, 0>>, <<0, Hour>>}

NextApi ==
    \/ \E n \in ClientInputs :
          create_client(1, n[1], n[2], 1) /\ UNCHANGED returned
    \/ \E req \in ReservationRequests, now \in Clock :
          CreateReservation(1, req, now) /\ UNCHANGED returned
    \/ create_reservation_tx(1) /\ UNCHANGED returned
    \/ create_reservation_commit(1) /\ UNCHANGED returned
    \/ \E text \in ReservationIdInputs : CancelReservation(1, text) /\ UNCHANGED returned
    \/ cancel_reservation_exists(1) /\ UNCHANGED returned
    \/ \E text \in ReservationIdInputs : GetReservation(1, text) /\ UNCHANGED returned
    \/ \E range \in RangeInputs, now \in Clock :
          ListAvailableSlots(1, range, now) /\ UNCHANGED returned
    \/ \E s \in SeqSlots : is_slot_available(1, s[1], s[2]) /\ UNCHANGED returned
    \/ \E text \in ClientIdInputs :
          ListClientReservations(1, text) /\ UNCHANGED returned
    \/ get_client_reservations_select(1) /\ UNCHANGED returned

SpecApi == Init /\ [][NextApi]_vars

\* the sequential client, who also lists the reservations of a client
NextList ==
    \/ NextSeq
    \/ \E c \in ClientIds : get_client_reservations(1, c) /\ UNCHANGED returned
    \/ get_client_reservations_select(1) /\ UNCHANGED returned

SpecList == Init /\ [][NextList]_vars

\* a caller who asks which slots are free and then books one of them, next
\* to a second caller who books a slot once the first has its answer
AdvisoryStores ==
    {{}} \cup
    {{[NewRow(MaxRes + 1, 1, s[1], s[2], None) EXCEPT !.status = st]} :
        s \in {x \in SeqSlots : x[1] < x[2]}, st \in {"confirmed", "cancelled"}}

InitAdvisory ==
    /\ clients = {[id |-> 1, name |-> "a", email |-> "a"]}
    /\ reservations \in AdvisoryStores
    /\ pc = [p \in Procs |-> "idle"]
    /\ call = [p \in Procs |-> NoCall]
    /\ tx = [p \in Procs |-> NoRow]
    /\ ev = NoEvent
    /\ returned = [p \in Procs |-> NoReturn]

\* caller 1 keeps the answer to its question
JoinScan(op, start_time, end_time) ==
    returned' = [returned EXCEPT ![1] =
                    [call |-> [NoCall EXCEPT !.op = op,
                                             !.start_time = start_time,
                                             !.end_time = end_time],
                     result |-> ev'.result]]

\* the answer caller 1 holds says that [start_time, end_time) is free
ReportedFree(start_time, end_time) ==
    LET res == returned[1].result
    IN  \/ /\ res.kind = "Slots"
           /\ \E i \in DOMAIN res.list : res.list[i] = TimeSlot(start_time, end_time)
        \/ /\ res.kind = "Bool"
           /\ res.list[1]
           /\ returned[1].call.start_time = start_time
           /\ returned[1].call.end_time = end_time

NextAdvisory ==
    \/ \E w \in Slots(SeqTimes) :
          /\ returned[1] = NoReturn
          /\ find_available_slots(1, w[1], w[2])
          /\ JoinScan("find_available_slots", w[1], w[2])
    \/ \E s \in SeqSlots :
          /\ returned[1] = NoReturn
          /\ is_slot_available(1, s[1], s[2])
          /\ JoinScan("is_slot_available", s[1], s[2])
    \/ \E s \in SeqSlots :
          /\ ReportedFree(s[1], s[2])
          /\ create_reservation(1, 1, s[1], s[2], "")
          /\ UNCHANGED returned
    \/ create_reservation_tx(1) /\ UNCHANGED returned
    \/ create_reservation_commit(1) /\ UNCHANGED returned
    \/ \E s \in SeqSlots :
          /\ returned[1] # NoReturn
          /\ returned[2] = NoReturn
          /\ create_reservation(2, 1, s[1], s[2], "")
          /\ JoinFirst(2, 1, s[1], s[2])
    \/ create_reservation_tx(2) /\ Join(2)
    \/ create_reservation_commit(2) /\ Join(2)

SpecAdvisory == InitAdvisory /\ [][NextAdvisory]_vars

\* handler 1 serves the requests that write, handler 2 those that read, and
\* the steps of the two interleave
NextRead ==
    \/ \E n \in ClientInputs :
          create_client(1, n[1], n[2], 1) /\ UNCHANGED returned
    \/ \E s \in Slots(Times) :
          create_reservation(1, 1, s[1], s[2], "") /\ UNCHANGED returned
    \/ create_reservation_tx(1) /\ UNCHANGED returned
    \/ create_reservation_commit(1) /\ UNCHANGED returned
    \/ \E id \in ResIds : cancel_reservation(1, id) /\ UNCHANGED returned
    \/ cancel_reservation_exists(1) /\ UNCHANGED returned
    \/ \E w \in Slots(Times) :
          find_available_slots(2, w[1], w[2]) /\ UNCHANGED returned
    \/ \E s \in Slots(Times) :
          is_slot_available(2, s[1], s[2]) /\ UNCHANGED returned
    \/ \E id \in ResIds : get_reservation(2, id) /\ UNCHANGED returned
    \/ \E c \in {1, 3} : get_client_reservations(2, c) /\ UNCHANGED returned
    \/ get_client_reservations_select(2) /\ UNCHANGED returned
    \/ list_clients(2) /\ UNCHANGED returned

SpecRead == Init /\ [][NextRead]_vars

\* the scanner reads a store that creates and cancels have filled: up to
\* MaxRes reservations of a registered client, of any interval and status,
\* the Confirmed ones not overlapping.  Ids do not matter to a scan: the
\* rows carry them in the order of start, end and status
ScanShapes ==
    {x \in Slots(SeqTimes) : x[1] < x[2]} \X {"confirmed", "cancelled"}

ScanBefore(x, y) ==
    \/ x[1][1] < y[1][1]
    \/ x[1][1] = y[1][1] /\ x[1][2] < y[1][2]
    \/ x[1] = y[1] /\ x[2] = "cancelled" /\ y[2] = "confirmed"

ScanRows(n) ==
    {{[NewRow(i, 1, f[i][1][1], f[i][1][2], None) EXCEPT !.status = f[i][2]] : i \in 1 .. n} :
        f \in {g \in [1 .. n -> ScanShapes] :
                  \A i \in 1 .. n, j \in 1 .. n : i < j => ScanBefore(g[i], g[j])}}

ScanStores ==
    {S \in UNION {ScanRows(n) : n \in 0 .. MaxRes} :
        \A a \in S, b \in S :
            (a # b /\ a.status = "confirmed" /\ b.status = "confirmed")
                => ~RangeOverlap(a.start_time, a.end_time, b.start_time, b.end_time)}

InitScan ==
    /\ clients = {[id |-> 1, name |-> "a", email |-> "a"]}
    /\ reservations \in ScanStores
    /\ pc = [p \in Procs |-> "idle"]
    /\ call = [p \in Procs |-> NoCall]
    /\ tx = [p \in Procs |-> NoRow]
    /\ ev = NoEvent
    /\ returned = [p \in Procs |-> NoReturn]

NextScan ==
    \E w \in Slots(SeqTimes) :
        find_available_slots(1, w[1], w[2]) /\ UNCHANGED returned

SpecScan == InitScan /\ [][NextScan]_vars

\* ------------------------------------------------------------ properties

Confirmed(rows) == {r \in rows : r.status = "confirmed"}

\* the half-open intervals [s1, e1) and [s2, e2) share an instant
Overlap(s1, e1, s2, e2) == s1 < e2 /\ s2 < e1

\* the result of a call that met a failure of the storage layer
StorageFailure(res) == res.kind = "DatabaseError" /\ res.cause = None

\* C1: in every reachable state, whatever the interleaving of creates and
\* cancels and whichever of them failed, no two distinct Confirmed
\* reservations have overlapping intervals.
C1_NoOverlappingConfirmed ==
    \A a \in Confirmed(reservations), b \in Confirmed(reservations) :
        a # b => ~Overlap(a.start_time, a.end_time, b.start_time, b.end_time)

C1_Witness ==
    /\ ev.result = ReservationConflict
    /\ \E a \in Confirmed(reservations), b \in Confirmed(reservations) : a # b

\* C2: of N >= 2 concurrent create calls of existing clients whose intervals
\* pairwise overlap, with no other Confirmed reservation overlapping them and
\* no storage failure, exactly one commits and returns its reservation, and
\* every other one returns ReservationConflict.
C2_ExactlyOneCommits ==
    \A S \in SUBSET Procs :
        LET req(p) == returned[p].call
            res(p) == returned[p].result
            made   == {res(p).id : p \in {q \in S : res(q).kind = "Reservation"}}
        IN  ( /\ Cardinality(S) >= 2
              /\ \A p \in S : returned[p] # NoReturn /\ ~StorageFailure(res(p))
              /\ \A p \in S : req(p).start_time < req(p).end_time
              /\ \A p \in S, q \in S :
                    Overlap(req(p).start_time, req(p).end_time,
                            req(q).start_time, req(q).end_time)
              /\ \A r \in Confirmed(reservations), p \in S :
                    Overlap(r.start_time, r.end_time,
                            req(p).start_time, req(p).end_time) => r.id \in made )
            => \E w \in S :
                  /\ res(w).kind = "Reservation"
                  /\ \E r \in Confirmed(reservations) :
                        /\ r.id = res(w).id
                        /\ r.start_time = req(w).start_time
                        /\ r.end_time = req(w).end_time
                  /\ \A p \in S \ {w} : res(p) = ReservationConflict

C2_Witness ==
    /\ \A p \in Procs : returned[p] # NoReturn
    /\ \A p \in Procs, q \in Procs : returned[p].call = returned[q].call
    /\ Cardinality({p \in Procs : returned[p].result.kind = "Reservation"}) = 1
    /\ Cardinality({p \in Procs : returned[p].result = ReservationConflict}) = NumProcs - 1
    /\ Cardinality(Confirmed(reservations)) = 1

\* C3: the insert of a create call returns ReservationConflict exactly when a
\* Confirmed reservation overlaps the requested interval at that moment: an
\* overlap is never reported as a raw DatabaseError, and ReservationConflict
\* is never reported by any step without such an overlap.
C3_ConflictIffOverlap ==
    [][ /\ \A p \in Handlers :
              ( /\ pc[p] = "insert"
                /\ pc'[p] # "insert"
                /\ create_reservation_tx(p) ) =>
                  LET hit == \E r \in Confirmed(reservations) :
                                 Overlap(r.start_time, r.end_time,
                                         call[p].start_time, call[p].end_time)
                  IN  /\ ev'.result.kind = "ReservationConflict" => hit
                      /\ (hit /\ ~StorageFailure(ev'.result))
                             => ev'.result = ReservationConflict
                      /\ ev'.result.kind = "DatabaseError" => ev'.result.cause = None
        /\ ev'.result.kind = "ReservationConflict"
              => \E p \in Handlers : create_reservation_tx(p)
      ]_vars

C3_Witness ==
    /\ ev.at = "insert" /\ ev.op = "create_reservation" /\ ev.result = ReservationConflict
    /\ Cardinality(Confirmed(reservations)) = 1
    /\ \E r \in reservations : r.status = "cancelled"

\* a Confirmed reservation, other than those of interval [s, e), overlaps
\* the interval [from, to)
OtherConfirmed(s, e, from, to) ==
    \E r \in Confirmed(reservations) :
        /\ ~(r.start_time = s /\ r.end_time = e)
        /\ Overlap(r.start_time, r.end_time, from, to)

\* the insert of the request of handler p asks for the interval [s, e)
Inserts(p, s, e) ==
    /\ create_reservation_tx(p)
    /\ call[p].start_time = s
    /\ call[p].end_time = e

\* the insert of handler p went through: the handler goes on to the commit
\* with the row of its request, Confirmed, in its transaction
Inserted(p) ==
    /\ ev' = NoEvent
    /\ pc'[p] = "commit"
    /\ tx'[p].status = "confirmed"
    /\ tx'[p].client_id = call[p].client_id
    /\ tx'[p].start_time = call[p].start_time
    /\ tx'[p].end_time = call[p].end_time

\* the commit of handler p made its row visible and returned it
Committed(p) ==
    /\ ev'.result = OkReservation(Reservation_from_row(tx[p]))
    /\ ev'.result.row.status = "Confirmed"
    /\ tx[p] \in Confirmed(reservations')

\* C4: intervals are half-open.  With [T, T+1h) Confirmed and nothing else
\* in the way, a create for [T+1h, T+2h) succeeds (as did the one for
\* [T, T+1h)), and a create for [T+0.5h, T+1.5h) fails with
\* ReservationConflict.
C4_TouchingEndpoints ==
    [][ \A T \in SeqTimes :
          LET booked == \E r \in Confirmed(reservations) :
                            r.start_time = T /\ r.end_time = T + Hour
          IN  /\ ( /\ Inserts(1, T, T + Hour)
                   /\ ~booked
                   /\ ~OtherConfirmed(T, T + Hour, T, T + Hour)
                   /\ ~StorageFailure(ev'.result) ) => Inserted(1)
              /\ ( /\ Inserts(1, T + Hour, T + 2 * Hour)
                   /\ booked
                   /\ ~OtherConfirmed(T, T + Hour, T + Hour, T + 2 * Hour)
                   /\ ~StorageFailure(ev'.result) ) => Inserted(1)
              /\ ( /\ Inserts(1, T + (Hour \div 2), T + Hour + (Hour \div 2))
                   /\ booked
                   /\ ~StorageFailure(ev'.result) ) => ev'.result = ReservationConflict
              /\ ( /\ create_reservation_commit(1)
                   /\ ~StorageFailure(ev'.result) ) => Committed(1)
      ]_vars

C4_Witness ==
    \E T \in SeqTimes :
        /\ \E r \in Confirmed(reservations) :
              r.start_time = T /\ r.end_time = T + Hour
        /\ ev.result.kind = "Reservation"
        /\ ev.result.row.start_time = T + Hour
        /\ ev.result.row.end_time = T + 2 * Hour
        /\ \E r \in Confirmed(reservations) : r.id = ev.result.id

\* C5: a valid create request whose client_id names no client returns
\* ClientNotFound(client_id) (unless the storage layer fails), does not go on
\* to the insert and leaves the stored data as it was, even when the
\* requested interval overlaps a Confirmed reservation.
C5_ClientNotFoundFirst ==
    [][ \A c \in ClientIds, s \in SeqSlots :
          ( /\ create_reservation(1, c, s[1], s[2], "")
            /\ s[1] < s[2]
            /\ ~ClientExists(c)
            /\ ~StorageFailure(ev'.result) )
          => /\ ev'.result = ClientNotFound(c)
             /\ pc'[1] = "idle"
             /\ tx' = tx
             /\ UNCHANGED <<clients, reservations>>
      ]_vars

C5_Witness ==
    /\ ev.result.kind = "ClientNotFound"
    /\ clients # {}
    /\ \A s \in SeqSlots :
          s[1] < s[2] => \E r \in Confirmed(reservations) :
                             Overlap(r.start_time, r.end_time, s[1], s[2])

\* C6: a step that answers a create call with an error, and a step that
\* leaves a create call suspended at its insert or commit, change neither
\* the clients nor the reservations, so a call that returns an error leaves
\* both as they were; a row is visible only from the step that returns it:
\* the row of an open transaction is not among the reservations.
C6_FailedCreateChangesNothing ==
    [][ /\ ( /\ ev'.op = "create_reservation"
             /\ ev'.result.kind # "Reservation" )
           => UNCHANGED <<clients, reservations>>
        /\ \A p \in Handlers :
              ( /\ pc'[p] # pc[p]
                /\ call'[p].op = "create_reservation" )
              => UNCHANGED <<clients, reservations>>
        /\ \A p \in Handlers :
              tx'[p] # NoRow => \A r \in reservations' : r.id # tx'[p].id
        /\ \A r \in reservations' :
              ~ReservationExists(r.id) =>
                  ev'.result = OkReservation(Reservation_from_row(r))
      ]_vars

C6_Witness ==
    /\ ev.at = "commit" /\ ev.op = "create_reservation" /\ ev.result = DatabaseError(None)
    /\ Confirmed(reservations) # {}
    /\ Cardinality(reservations) < MaxRes

\* the reservations, with the one of this id Cancelled
WithCancelled(rows, id) ==
    {IF r.id = id THEN [r EXCEPT !.status = "cancelled"] ELSE r : r \in rows}

\* C7: cancelling is idempotent.  A cancel of a Confirmed reservation
\* succeeds and marks it Cancelled; a cancel of a reservation that is
\* already Cancelled succeeds as well and changes nothing (storage failures
\* apart), so that the state after the second cancel is the state after the
\* first.
C7_CancelIdempotent ==
    [][ \A id \in ResIds :
          LET confirmed == \E r \in reservations : r.id = id /\ r.status = "confirmed"
              cancelled == \E r \in reservations : r.id = id /\ r.status = "cancelled"
          IN  /\ ( /\ cancel_reservation(1, id)
                   /\ confirmed
                   /\ ~StorageFailure(ev'.result) )
                 => /\ ev'.result = OkUnit
                    /\ reservations' = WithCancelled(reservations, id)
                    /\ clients' = clients
              /\ ( /\ cancel_reservation(1, id)
                   /\ cancelled
                   /\ ~StorageFailure(ev'.result) )
                 => /\ ev' = NoEvent
                    /\ pc'[1] = "exists"
                    /\ call'[1].id = id
                    /\ UNCHANGED <<clients, reservations>>
              /\ ( /\ cancel_reservation_exists(1)
                   /\ call[1].id = id
                   /\ cancelled
                   /\ ~StorageFailure(ev'.result) )
                 => /\ ev'.result = OkUnit
                    /\ UNCHANGED <<clients, reservations>>
      ]_vars

C7_Witness ==
    /\ ev.at = "exists" /\ ev.op = "cancel_reservation" /\ ev.result = OkUnit
    /\ \E r \in reservations : r.status = "cancelled"
    /\ Confirmed(reservations) # {}

\* C8: a cancel of an id that names no reservation fails with
\* ReservationNotFound(id) (storage failures apart) and changes no client and
\* no reservation.
C8_CancelUnknown ==
    [][ \A id \in ResIds :
          ~ReservationExists(id) =>
              /\ cancel_reservation(1, id)
                 => /\ UNCHANGED <<clients, reservations>>
                    /\ \/ StorageFailure(ev'.result)
                       \/ ev' = NoEvent /\ pc'[1] = "exists" /\ call'[1].id = id
              /\ ( cancel_reservation_exists(1) /\ call[1].id = id )
                 => /\ UNCHANGED <<clients, reservations>>
                    /\ \/ StorageFailure(ev'.result)
                       \/ ev'.result = ReservationNotFound(id)
      ]_vars

C8_Witness ==
    /\ ev.op = "cancel_reservation"
    /\ ev.result.kind = "ReservationNotFound"
    /\ ~ReservationExists(ev.result.id)
    /\ Confirmed(reservations) # {}
    /\ clients # {}

\* C9: a reservation is Confirmed when it becomes visible, it never
\* disappears, and the only change of its status is from Confirmed to
\* Cancelled: a Cancelled reservation stays Cancelled under every create,
\* cancel and read, of any handler, in any interleaving.
C9_StatusLifecycle ==
    [][ /\ \A r \in reservations' :
              ~ReservationExists(r.id) => r.status = "confirmed"
        /\ \A r \in reservations :
              \E n \in reservations' :
                  /\ n.id = r.id
                  /\ \/ n = r
                     \/ /\ r.status = "confirmed"
                        /\ n = [r EXCEPT !.status = "cancelled"]
        /\ \A r \in reservations' : r.status \in {"confirmed", "cancelled"}
        /\ ev'.result.kind = "Reservation"
              => ev'.result.row.status \in {"Confirmed", "Cancelled"}
      ]_vars

C9_Witness ==
    /\ \E r \in reservations : r.status = "cancelled"
    /\ ev.op = "cancel_reservation"
    /\ ev.at = "exists"
    /\ ev.result = OkUnit
    /\ \E p \in Handlers : tx[p] # NoRow

\* C10: the interval of a Cancelled reservation can be booked again, by the
\* same client or another existing one, when no Confirmed reservation
\* overlaps it: the insert goes through and the commit returns the new
\* Confirmed reservation (storage failures apart).  A create never returns
\* ReservationConflict on account of Cancelled reservations alone.
C10_RebookCancelled ==
    [][ /\ \A r \in reservations :
              ( /\ r.status = "cancelled"
                /\ Inserts(1, r.start_time, r.end_time)
                /\ \A c \in Confirmed(reservations) :
                      ~Overlap(c.start_time, c.end_time, r.start_time, r.end_time)
                /\ ~StorageFailure(ev'.result) ) => Inserted(1)
        /\ ( /\ create_reservation_commit(1)
             /\ ~StorageFailure(ev'.result) ) => Committed(1)
        /\ ( /\ create_reservation_tx(1)
             /\ ev'.result.kind = "ReservationConflict" )
           => \E r \in Confirmed(reservations) :
                  Overlap(r.start_time, r.end_time,
                          call[1].start_time, call[1].end_time)
      ]_vars

C10_Witness ==
    \E a \in reservations, b \in reservations :
        /\ a.status = "cancelled"
        /\ b.status = "confirmed"
        /\ a.start_time = b.start_time
        /\ a.end_time = b.end_time
        /\ a.client_id # b.client_id
        /\ ev.result = OkReservation(Reservation_from_row(b))

\* C20: every error of the repository reaches the caller as one status code:
\* ReservationConflict as AlreadyExists, ReservationNotFound and
\* ClientNotFound as NotFound, a database failure as Internal; no other
\* response carries one of these codes for another result.
C20_ErrorMapping ==
    /\ ev.result.kind = "ReservationConflict" <=> ev.status = "AlreadyExists"
    /\ ev.result.kind \in {"ReservationNotFound", "ClientNotFound"} <=> ev.status = "NotFound"
    /\ ev.result.kind = "DatabaseError" <=> ev.status = "Internal"
    /\ ev.result.kind \in RepositoryErrors \/ ev.status \in {"none", "Ok", "InvalidArgument"}

C20_Witness ==
    /\ ev.result = ReservationConflict
    /\ ev.status = "AlreadyExists"
    /\ ev.op = "create_reservation"

\* the elements of a sequence
Range(seq) == {seq[i] : i \in DOMAIN seq}

\* C12: a one-hour candidate slot of the window is emitted exactly when it
\* overlaps none of the Confirmed reservations fetched for the window, with
\* overlap as slot.start < res.end and res.start < slot.end; the three
\* clauses of the code agree with that predicate on every stored reservation,
\* so that a slot that ends where a reservation starts, or starts where one
\* ends, is free.
C12_FreeIffNoOverlap ==
    [][ \A w \in Slots(SeqTimes) :
          ( find_available_slots(1, w[1], w[2]) /\ ev'.result.kind = "Slots" ) =>
              LET fetched == {r \in Confirmed(reservations) :
                                 Overlap(r.start_time, r.end_time, w[1], w[2])}
              IN  \A k \in 0 .. SeqMaxTime :
                      LET c == w[1] + k * Hour
                      IN  c < w[2] =>
                            /\ TimeSlot(c, c + Hour) \in Range(ev'.result.list)
                                  <=> \A r \in fetched :
                                          ~Overlap(c, c + Hour, r.start_time, r.end_time)
                            /\ \A r \in reservations :
                                  slot_overlaps(c, c + Hour, r)
                                      <=> Overlap(c, c + Hour, r.start_time, r.end_time)
      ]_vars

C12_Witness ==
    /\ ev.result.kind = "Slots"
    /\ \E s \in Range(ev.result.list) :
          /\ \E r \in Confirmed(reservations) : r.start_time = s.end_time
          /\ \E r \in Confirmed(reservations) : r.end_time = s.start_time

\* C13: for a window with start < end the slots examined are the slots
\* [start + k*1h, start + (k+1)*1h) of every k >= 0 with start + k*1h < end,
\* in ascending order; the emitted slots are among them, ascending, each one
\* hour long, and all of them when nothing is booked; when the window is not
\* a whole number of hours the last one reaches past the end of the window.
C13_Candidates ==
    [][ \A w \in Slots(SeqTimes) :
          ( /\ find_available_slots(1, w[1], w[2])
            /\ w[1] < w[2]
            /\ ev'.result.kind = "Slots" ) =>
              LET n == Cardinality({k \in 0 .. SeqMaxTime : w[1] + k * Hour < w[2]})
                  expected == [k \in 1 .. n |->
                                  TimeSlot(w[1] + (k - 1) * Hour, w[1] + k * Hour)]
                  out == ev'.result.list
              IN  /\ candidates(w[1], w[2]) = expected
                  /\ \A i \in DOMAIN out :
                        /\ out[i] \in Range(expected)
                        /\ out[i].end_time = out[i].start_time + Hour
                        /\ \A j \in DOMAIN out :
                              i < j => out[i].start_time < out[j].start_time
                  /\ Confirmed(reservations) = {} => out = expected
                  /\ (w[2] - w[1]) % Hour # 0 =>
                        /\ expected[n].start_time < w[2]
                        /\ expected[n].end_time > w[2]
      ]_vars

C13_Witness ==
    /\ ev.result.kind = "Slots"
    /\ Len(ev.result.list) >= 2
    /\ ev.result.list[Len(ev.result.list)].end_time > SeqMaxTime
    /\ Confirmed(reservations) # {}

\* a stored row as the repository returns it
AsReservation(r) ==
    [r EXCEPT !.status = IF r.status = "confirmed" THEN "Confirmed" ELSE "Cancelled"]

\* C11: no step removes a client or a reservation, gives an existing id a
\* second record, or changes a field of an existing record other than a
\* reservation's status.
C11_RecordsImmutable ==
    [][ /\ \A c \in clients : c \in clients'
        /\ \A c \in clients' : c \in clients \/ ~ClientExists(c.id)
        /\ \A r \in reservations :
              \E n \in reservations' : n = [r EXCEPT !.status = n.status]
        /\ \A n \in reservations' :
              \/ ~ReservationExists(n.id)
              \/ \E r \in reservations : n = [r EXCEPT !.status = n.status]
      ]_vars

C11_Witness ==
    /\ ev.op = "cancel_reservation"
    /\ ev.at = "idle"
    /\ ev.result = OkUnit
    /\ Cardinality(reservations) >= 2
    /\ \E r \in reservations : r.status = "cancelled"

\* the step answers InvalidArgument without a call of the repository
Rejected ==
    /\ ev'.result = InvalidArgument
    /\ ev'.status = "InvalidArgument"
    /\ ev'.at = "idle"
    /\ pc'[1] = "idle"
    /\ tx' = tx
    /\ UNCHANGED <<clients, reservations>>

\* a timestamp of the wire that is an instant
WellFormed(ts) == ts # None /\ ts[1].nanos = 0

\* C16: a CreateReservation request with start >= end, with a missing slot,
\* start or end, or with a client id that is no Uuid, a ListAvailableSlots
\* request with start >= end or a missing bound, a Get, Cancel or
\* ListClientReservations request with an id that is no Uuid, and a
\* CreateClient request with an empty name or email are answered
\* InvalidArgument in the handler's first step, before any call of the
\* repository, whether or not the client exists or the interval is booked.
C16_ValidationFirst ==
    [][ /\ ev'.op \in {"none", "create_reservation"} =>
              \A req \in ReservationRequests, now \in Clock :
                  ( /\ \/ req.client_id \notin Range(UuidText)
                       \/ req.slot = None
                       \/ req.slot[1].start_time = None
                       \/ req.slot[1].end_time = None
                       \/ /\ WellFormed(req.slot[1].start_time)
                          /\ WellFormed(req.slot[1].end_time)
                          /\ req.slot[1].start_time[1].seconds
                                >= req.slot[1].end_time[1].seconds
                    /\ CreateReservation(1, req, now) )
                  => Rejected
        /\ ev'.op \in {"none", "find_available_slots"} =>
              \A range \in RangeInputs, now \in Clock :
                  ( /\ \/ range.start_time = None
                       \/ range.end_time = None
                       \/ /\ WellFormed(range.start_time)
                          /\ WellFormed(range.end_time)
                          /\ range.start_time[1].seconds >= range.end_time[1].seconds
                    /\ ListAvailableSlots(1, range, now) )
                  => Rejected
        /\ ( \/ GetReservation(1, "zz")
             \/ CancelReservation(1, "zz")
             \/ ListClientReservations(1, "zz") )
           => Rejected
        /\ ev'.op \in {"none", "create_client"} =>
              \A n \in ClientInputs :
                  ( (n[1] = "" \/ n[2] = "") /\ create_client(1, n[1], n[2], 1) )
                  => Rejected
      ]_vars

C16_Witness ==
    /\ ev.op = "create_reservation"
    /\ ev.result = InvalidArgument
    /\ \E r \in Confirmed(reservations) : r.start_time < 1 /\ 1 < r.end_time

\* C17: every stored reservation, and every row a transaction has inserted,
\* has start < end, and so has every slot a scan returns.
C17_StartBeforeEnd ==
    /\ \A r \in reservations : r.start_time < r.end_time
    /\ tx[1] # NoRow => tx[1].start_time < tx[1].end_time
    /\ ev.result.kind = "Slots" =>
          \A s \in Range(ev.result.list) : s.start_time < s.end_time

C17_Witness ==
    /\ ev.result.kind = "Slots"
    /\ ev.result.list # <<>>
    /\ Cardinality(reservations) >= 2

\* C18: get_client_reservations of an unknown client fails with
\* ClientNotFound; of a known client it returns the reservations of that
\* client and no others, Confirmed and Cancelled, each once, in ascending
\* order of start: none for a client without reservations (storage failures
\* apart).
C18_ClientReservations ==
    [][ \A c \in ClientIds :
          /\ ( /\ get_client_reservations(1, c)
               /\ ~ClientExists(c)
               /\ ~StorageFailure(ev'.result) )
             => ev'.result = ClientNotFound(c) /\ ev'.status = "NotFound"
          /\ ( /\ get_client_reservations(1, c)
               /\ ClientExists(c)
               /\ ~StorageFailure(ev'.result) )
             => ev' = NoEvent /\ pc'[1] = "select" /\ call'[1].client_id = c
          /\ ( /\ get_client_reservations_select(1)
               /\ call[1].client_id = c
               /\ ~StorageFailure(ev'.result) )
             => LET mine == {r \in reservations : r.client_id = c}
                    out == ev'.result.list
                IN  /\ ev'.result.kind = "Reservations"
                    /\ ev'.status = "Ok"
                    /\ Range(out) = {AsReservation(r) : r \in mine}
                    /\ Len(out) = Cardinality(mine)
                    /\ \A i \in DOMAIN out, j \in DOMAIN out :
                          i < j => out[i].start_time <= out[j].start_time
      ]_vars

C18_Witness ==
    /\ ev.result.kind = "Reservations"
    /\ \E s \in Range(ev.result.list) : s.status = "Cancelled"
    /\ \E s \in Range(ev.result.list) : s.status = "Confirmed"
    /\ ev.result.list[1].start_time < ev.result.list[2].start_time
    /\ Cardinality(clients) >= 2

\* C19: the commit of a create returns the new reservation: Confirmed, with
\* an id that no reservation had, and the client_id, start, end and notes of
\* the request; get_reservation of an id returns the stored reservation of
\* that id, Cancelled once it was cancelled, and ReservationNotFound when
\* there is none (storage failures apart).
C19_CreateThenGet ==
    [][ /\ ( create_reservation_commit(1) /\ ev'.result.kind = "Reservation" )
           => LET r == ev'.result.row
              IN  /\ r.status = "Confirmed"
                  /\ r.id = ev'.result.id
                  /\ ~ReservationExists(r.id)
                  /\ r.client_id = call[1].client_id
                  /\ r.start_time = call[1].start_time
                  /\ r.end_time = call[1].end_time
                  /\ r.notes = IF call[1].notes = "" THEN None ELSE Some(call[1].notes)
                  /\ [r EXCEPT !.status = "confirmed"] \in reservations'
        /\ \A id \in ResIds :
              ( get_reservation(1, id) /\ ~StorageFailure(ev'.result) )
              => IF ReservationExists(id)
                 THEN /\ ev'.result.kind = "Reservation"
                      /\ \E r \in reservations :
                            r.id = id /\ ev'.result.row = AsReservation(r)
                 ELSE ev'.result = ReservationNotFound(id)
      ]_vars

C19_Witness ==
    /\ ev.op = "get_reservation"
    /\ ev.result.kind = "Reservation"
    /\ ev.result.row.status = "Cancelled"
    /\ \E r \in reservations : AsReservation(r) = ev.result.row
    /\ Confirmed(reservations) # {}

\* C15: is_slot_available(s, e) answers true iff no Confirmed reservation of
\* the store overlaps [s, e) when it reads (storage failures apart), and its
\* answer is the verdict of the insert: with no other write in between, the
\* insert of a create of an existing client over [s, e) goes through, and the
\* commit returns the reservation, iff the check answers true on that store,
\* and it fails with ReservationConflict iff the check answers false.
C15_AdvisoryAgrees ==
    [][ /\ ev'.op = "is_slot_available"
           => \A s \in SeqSlots :
                 ( /\ s[1] < s[2]
                   /\ ~StorageFailure(ev'.result)
                   /\ is_slot_available(1, s[1], s[2]) )
                 => ev'.result = OkBool(~\E r \in Confirmed(reservations) :
                        Overlap(s[1], s[2], r.start_time, r.end_time))
        /\ ( create_reservation_tx(1) /\ ~StorageFailure(ev'.result) )
           => LET answer == overlapping_count(reservations,
                                call[1].start_time, call[1].end_time) = 0
              IN  /\ ClientExists(call[1].client_id)
                  /\ Inserted(1) <=> answer
                  /\ ev'.result = ReservationConflict <=> ~answer
        /\ ( create_reservation_commit(1) /\ ~StorageFailure(ev'.result) )
           => /\ Committed(1)
              /\ overlapping_count(reservations, tx[1].start_time, tx[1].end_time) = 0
      ]_vars

C15_Witness ==
    /\ ev.op = "is_slot_available"
    /\ ev.result = OkBool(FALSE)
    /\ \E r \in reservations : r.status = "cancelled"
    /\ Cardinality(Confirmed(reservations)) = 1

\* C14: a slot reported free is not guaranteed bookable.  A caller to whom
\* find_available_slots or is_slot_available reported [s, e) free, and who
\* then creates a reservation for it, gets ReservationConflict exactly when a
\* Confirmed reservation overlapping [s, e) is in the store by the time of
\* its insert, as after the commit of a concurrent create; no two Confirmed
\* reservations overlap at any time.  C14_Witness is the interleaving.
C14_ReportedFreeNotBookable ==
    [][ /\ \A a \in Confirmed(reservations'), b \in Confirmed(reservations') :
              a # b => ~Overlap(a.start_time, a.end_time, b.start_time, b.end_time)
        /\ ( create_reservation_tx(1) /\ ~StorageFailure(ev'.result) )
           => /\ ReportedFree(call[1].start_time, call[1].end_time)
              /\ ev'.result = ReservationConflict
                 <=> \E r \in Confirmed(reservations) :
                        Overlap(call[1].start_time, call[1].end_time,
                                r.start_time, r.end_time)
              /\ ev'.result # ReservationConflict => Inserted(1)
      ]_vars

\* find_available_slots reported one slot, the second caller's create for
\* an overlapping interval committed, and the first caller's create failed
C14_Witness ==
    /\ returned[1].call.op = "find_available_slots"
    /\ returned[1].result.kind = "Slots"
    /\ Len(returned[1].result.list) = 1
    /\ returned[2].result.kind = "Reservation"
    /\ Overlap(returned[1].result.list[1].start_time,
               returned[1].result.list[1].end_time,
               returned[2].result.row.start_time,
               returned[2].result.row.end_time)
    /\ Confirmed(reservations) =
           {[returned[2].result.row EXCEPT !.status = "confirmed"]}
    /\ ev.op = "create_reservation"
    /\ ev.at = "insert"
    /\ ev.result = ReservationConflict

\* the operations of the repository that only read
ReadOps ==
    {"find_available_slots", "is_slot_available", "get_reservation",
     "get_client_reservations", "list_clients"}

\* C21: no step of find_available_slots, is_slot_available, get_reservation,
\* get_client_reservations or list_clients changes the clients, the
\* reservations (their statuses included) or an open transaction, whether
\* the step answers the call or leaves it suspended, and whatever the writes
\* of another handler it runs between.
C21_ReadsChangeNothing ==
    [][ /\ ev'.op \in ReadOps => UNCHANGED <<clients, reservations, tx>>
        /\ \A p \in Handlers :
              ( pc'[p] # pc[p] /\ call'[p].op \in ReadOps )
              => UNCHANGED <<clients, reservations, tx>>
      ]_vars

\* a read answered while a create of the other handler has its transaction
\* open
C21_Witness ==
    /\ ev.op = "find_available_slots"
    /\ ev.result.kind = "Slots"
    /\ tx[1] # NoRow
    /\ reservations # {}

\* the results a create_reservation that opened its transaction ends with
CreateOutcomes == {"Reservation", "ClientNotFound", "ReservationConflict", "DatabaseError"}

\* C22: a create_reservation that has started ends, whatever the other
\* calls do, as long as every handler that can take a step takes one in
\* the end; it ends with a reservation (its transaction committed), with
\* ClientNotFound, ReservationConflict or a storage error, and a handler
\* that is not serving a call has no open transaction: the return of
\* ClientNotFound, which calls no rollback, closes it as well.
C22_TransactionClosed ==
    /\ [](\A p \in Procs :
            /\ pc[p] = "idle" => tx[p] = NoRow
            /\ pc[p] # "idle" => tx[p] # NoRow
            /\ returned[p] # NoReturn =>
                  /\ pc[p] = "idle"
                  /\ IF returned[p].call.start_time < returned[p].call.end_time
                     THEN returned[p].result.kind \in CreateOutcomes
                     ELSE returned[p].result = InvalidArgument
                  /\ returned[p].result.kind = "Reservation"
                        => [returned[p].result.row EXCEPT !.status = "confirmed"]
                               \in reservations
                  /\ returned[p].result.kind = "ClientNotFound"
                        => ~ClientExists(returned[p].call.client_id))
    /\ \A p \in Procs : (pc[p] # "idle") ~> (pc[p] = "idle" /\ returned[p] # NoReturn)

\* every call has ended: one with ClientNotFound, one with a reservation
C22_Witness ==
    /\ \A p \in Procs : returned[p] # NoReturn /\ tx[p] = NoRow /\ pc[p] = "idle"
    /\ \E p \in Procs : returned[p].result.kind = "ClientNotFound"
    /\ \E p \in Procs : returned[p].result.kind = "Reservation"

\* a timestamp that is present and that DateTime::from_timestamp does not
\* convert
Malformed(ts) ==
    ts # None /\ ~(ts[1].nanos >= 0 /\ ts[1].nanos < 2000000000)

\* C23: a CreateReservation or ListAvailableSlots request whose start or
\* end timestamp is present but cannot be converted is answered with
\* InvalidArgument, with no access to the store (a call that meets a
\* storage failure is left aside: it did get to the store).
C23_MalformedRejected ==
    [][ /\ \A req \in ReservationRequests, now \in Clock :
              ( /\ req.slot # None
                /\ req.slot[1].start_time # None
                /\ req.slot[1].end_time # None
                /\ Malformed(req.slot[1].start_time) \/ Malformed(req.slot[1].end_time)
                /\ ~StorageFailure(ev'.result)
                /\ CreateReservation(1, req, now) )
              => /\ ev'.op = "create_reservation"
                 /\ ev'.result = InvalidArgument
                 /\ UNCHANGED <<clients, reservations, tx>>
        /\ \A range \in RangeInputs, now \in Clock :
              ( /\ range.start_time # None
                /\ range.end_time # None
                /\ Malformed(range.start_time) \/ Malformed(range.end_time)
                /\ ~StorageFailure(ev'.result)
                /\ ListAvailableSlots(1, range, now) )
              => /\ ev'.op = "find_available_slots"
                 /\ ev'.result = InvalidArgument
      ]_vars

\* the status of the reservation of that id in the rows
StatusOf(rows, id) == (CHOOSE r \in rows : r.id = id).status

\* C24: a cancel of a reservation that exists never returns
\* ReservationNotFound, though its update and its existence check are two
\* steps: whatever cancels of the same reservation and creates run next to
\* it, every cancel returns success (storage failures apart), the
\* reservation stays in the store, and once a cancel has returned success it
\* is Cancelled; its status changes only from Confirmed to Cancelled, in the
\* update of a cancel that returns success from that step, so that at most
\* one cancel makes the change, and exactly one when the reservation was
\* Confirmed.
C24_ConcurrentCancel ==
    /\ [](/\ ReservationExists(Held)
          /\ \A p \in Procs :
                returned[p].call.op = "cancel_reservation"
                => /\ returned[p].result \in {OkUnit, DatabaseError(None)}
                   /\ returned[p].result = OkUnit
                         => StatusOf(reservations, Held) = "cancelled")
    /\ [][ /\ StatusOf(reservations', Held) # StatusOf(reservations, Held)
              => /\ StatusOf(reservations, Held) = "confirmed"
                 /\ StatusOf(reservations', Held) = "cancelled"
                 /\ ev'.op = "cancel_reservation"
                 /\ ev'.at = "idle"
                 /\ ev'.result = OkUnit
           /\ ( ev'.op = "cancel_reservation" /\ ev'.result = OkUnit )
              => IF ev'.at = "idle"
                 THEN StatusOf(reservations, Held) = "confirmed"
                 ELSE /\ ev'.at = "exists"
                      /\ StatusOf(reservations, Held) = "cancelled"
                      /\ UNCHANGED reservations
         ]_vars

\* two cancels of the reservation have returned success, the second one from
\* its existence check
C24_Witness ==
    /\ Cardinality({p \in Procs : /\ returned[p].call.op = "cancel_reservation"
                                  /\ returned[p].result = OkUnit}) >= 2
    /\ ev.op = "cancel_reservation"
    /\ ev.at = "exists"
    /\ ev.result = OkUnit
    /\ StatusOf(reservations, Held) = "cancelled"

\* C25: with no write between the query and the answer, every slot that
\* find_available_slots returns overlaps no Confirmed reservation of the
\* store, the slot that ends past the end of the window included:
\* is_slot_available would answer true for it.
C25_ReturnedSlotsFree ==
    ( ev.op = "find_available_slots" /\ ev.result.kind = "Slots" )
    => \A i \in DOMAIN ev.result.list :
          LET slot == ev.result.list[i]
          IN  /\ ~\E r \in Confirmed(reservations) :
                    Overlap(slot.start_time, slot.end_time, r.start_time, r.end_time)
              /\ overlapping_count(reservations, slot.start_time, slot.end_time) = 0
====
